---- MODULE Spec2Model ----
(***************************************************************************)
(* Model of src/Python/medium/classes_relativity/four_vector.py:           *)
(* the FourVector value type, its four construction variants, the derived  *)
(* quantities, the arithmetic operators and the mutation attempts.         *)
(*                                                                         *)
(* Python floats are IEEE-754 binary64.  The model keeps the structure of  *)
(* that format (a Prec-bit significand, gradual underflow, a largest       *)
(* finite value, +inf, -inf, NaN, round-to-nearest-even) at a reduced      *)
(* width, so that rounding, underflow and overflow all happen on small     *)
(* numbers.  A finite float is the integer number of units 2^-Scale it     *)
(* holds; the zero is unsigned.  A raised exception is a value too: every  *)
(* operation handed an exception returns it, which is how an exception     *)
(* leaves a Python expression.                                             *)
(***************************************************************************)
EXTENDS Integers, Sequences, FiniteSets, TLC

\* ------------------------------------------------------------------------
\* The floating-point format
\* ------------------------------------------------------------------------
Prec == 3
ExpRange == 6
Scale == 4

RECURSIVE Pow2Int(_)
Pow2Int(k) == IF k = 0 THEN 1 ELSE 2 * Pow2Int(k - 1)

One == Pow2Int(Scale)
Half == One \div 2
Top == Pow2Int(Prec) * Pow2Int(ExpRange)
MaxFinite == (Pow2Int(Prec) - 1) * Pow2Int(ExpRange)
MinNormal == Pow2Int(Prec - 1)

PosInf == Top
NegInf == 0 - Top
NaN == Top + 1
OverflowError == Top + 2
ValueError == Top + 3
ZeroDivisionError == Top + 4

Errors == {OverflowError, ValueError, ZeroDivisionError}
IsErr(x) == x > NaN
IsNaN(x) == x = NaN
IsInf(x) == x = PosInf \/ x = NegInf

Mags == {m * Pow2Int(k) : m \in 0..(Pow2Int(Prec) - 1), k \in 0..ExpRange}
Floats == Mags \cup {0 - f : f \in Mags}
Vals == Floats \cup {PosInf, NegInf, NaN} \cup Errors

Abs(n) == IF n < 0 THEN 0 - n ELSE n
Sgn(n) == IF n < 0 THEN 0 - 1 ELSE 1

\* the first exception among the values of a left-to-right evaluation
RECURSIVE FirstErr(_)
FirstErr(s) ==
    IF s = << >> THEN 0
    ELSE IF IsErr(Head(s)) THEN Head(s) ELSE FirstErr(Tail(s))
AnyErr(s) == FirstErr(s) # 0

\* binary exponent of a non-negative integer magnitude q: the least k with
\* q < 2^Prec * 2^k
RECURSIVE ExpOf(_, _)
ExpOf(q, k) == IF q < Pow2Int(Prec) THEN k ELSE ExpOf(q \div 2, k + 1)

\* round-to-nearest-even of the non-negative real n/d (in units), s being the
\* spacing of the floats around it and lo, lo + s its two neighbours: the
\* nearer one, a tie going to the even significand
Nearest(n, d, lo, s) ==
    IF 2 * n < (2 * lo + s) * d THEN lo
    ELSE IF 2 * n > (2 * lo + s) * d THEN lo + s
    ELSE IF (lo \div s) % 2 = 0 THEN lo ELSE lo + s

\* a magnitude beyond the largest finite value is +inf
Overflowing(m) == IF m > MaxFinite THEN PosInf ELSE m

RoundStep(n, d, s) == Overflowing(Nearest(n, d, ((n \div d) \div s) * s, s))

RoundMag(n, d) == RoundStep(n, d, Pow2Int(ExpOf(n \div d, 0)))

\* round the real sgn*n/d, n >= 0, d > 0
Round(sgn, n, d) == sgn * RoundMag(n, d)

\* round the real v * 2^Scale / d to a float, v an integer of either sign
RoundSigned(v, d) == Round(Sgn(v), Abs(v) * One, d)

\* a magnitude that raises OverflowError where it is out of range
OrOverflow(sgn, m) == IF m = PosInf THEN OverflowError ELSE sgn * m

RECURSIVE ISqrt(_)
ISqrt(n) ==
    IF n < 2 THEN n
    ELSE LET r == 2 * ISqrt(n \div 4)
         IN  IF (r + 1) * (r + 1) <= n THEN r + 1 ELSE r

\* ------------------------------------------------------------------------
\* Float operations of the Python runtime used by four_vector.py.  Each is
\* defined on two or one values and then tabulated over the format, the
\* table being what the program's expressions below apply.
\* ------------------------------------------------------------------------

\* x + y
FloatAdd(x, y) ==
    IF IsErr(x) THEN x
    ELSE IF IsErr(y) THEN y
    ELSE IF IsNaN(x) \/ IsNaN(y) THEN NaN
    ELSE IF IsInf(x) /\ IsInf(y) THEN (IF x = y THEN x ELSE NaN)
    ELSE IF IsInf(x) THEN x
    ELSE IF IsInf(y) THEN y
    ELSE Round(Sgn(x + y), Abs(x + y), 1)

\* -x
FloatNeg(x) == IF IsErr(x) \/ IsNaN(x) THEN x ELSE 0 - x

\* x - y
FloatSub(x, y) == FloatAdd(x, FloatNeg(y))

\* x * y: overflow gives an infinity, no exception
FloatMul(x, y) ==
    IF IsErr(x) THEN x
    ELSE IF IsErr(y) THEN y
    ELSE IF IsNaN(x) \/ IsNaN(y) THEN NaN
    ELSE IF IsInf(x) \/ IsInf(y)
         THEN (IF x = 0 \/ y = 0 THEN NaN ELSE Sgn(x) * Sgn(y) * PosInf)
    ELSE Round(Sgn(x) * Sgn(y), Abs(x) * Abs(y), One)

\* x / y: a zero divisor raises ZeroDivisionError
FloatDiv(x, y) ==
    IF IsErr(x) THEN x
    ELSE IF IsErr(y) THEN y
    ELSE IF y = 0 THEN ZeroDivisionError
    ELSE IF IsNaN(x) \/ IsNaN(y) THEN NaN
    ELSE IF IsInf(x) /\ IsInf(y) THEN NaN
    ELSE IF IsInf(x) THEN Sgn(x) * Sgn(y) * PosInf
    ELSE IF IsInf(y) THEN 0
    ELSE Round(Sgn(x) * Sgn(y), Abs(x) * One, Abs(y))

\* x ** 2: unlike x * x, a finite x whose square is out of range raises
\* OverflowError; a square below half the smallest unit is silently 0
FloatSquare(x) ==
    IF IsErr(x) \/ IsNaN(x) THEN x
    ELSE IF IsInf(x) THEN PosInf
    ELSE OrOverflow(1, RoundMag(x * x, One))

\* abs(x)
FloatAbs(x) == IF IsErr(x) \/ IsNaN(x) THEN x ELSE Abs(x)

\* the float nearest to the square root of n / 2^(2 Scale), lo and lo + s
\* being the floats around it
SqrtNearest(n, lo, s) ==
    IF 4 * n < (2 * lo + s) * (2 * lo + s) THEN lo
    ELSE IF 4 * n > (2 * lo + s) * (2 * lo + s) THEN lo + s
    ELSE IF (lo \div s) % 2 = 0 THEN lo ELSE lo + s

SqrtStep(n, r, s) == SqrtNearest(n, (r \div s) * s, s)

SqrtRound(n, r) == SqrtStep(n, r, Pow2Int(ExpOf(r, 0)))

\* math.sqrt(x), correctly rounded; a negative argument raises ValueError
MathSqrt(x) ==
    IF IsErr(x) \/ IsNaN(x) THEN x
    ELSE IF x < 0 THEN ValueError
    ELSE IF x = PosInf THEN PosInf
    ELSE SqrtRound(x * One, ISqrt(x * One))

\* max(x, 0): Python keeps the first argument unless a later one compares
\* greater, so max(nan, 0) is nan
Max0(x) == IF IsErr(x) \/ IsNaN(x) THEN x ELSE IF 0 > x THEN 0 ELSE x

\* comparisons of floats: every comparison with NaN is false, but != is true
Fne(x, y) == IsNaN(x) \/ IsNaN(y) \/ x # y
Fge(x, y) == ~IsNaN(x) /\ ~IsNaN(y) /\ x >= y

\* ------------------------------------------------------------------------
\* math-library functions
\* ------------------------------------------------------------------------

\* math.cos, math.sin and math.sinh at the sample angles h/2, h in 0..10:
\* the value of the function times 10^5, which the function rounds to a float
CosTable == <<100000, 87758, 54030, 7074, -41615, -80114, -98999, -93646, -65364,
             -21080, 28366>>
SinTable == <<0, 47943, 84147, 99749, 90930, 59847, 14112, -35078, -75680,
             -97753, -95892>>
SinhTable == <<0, 52110, 117520, 212928, 362686, 605020, 1001787, 1654263,
              2728992, 4500301, 7420321>>

Angles == {a \in Floats : Abs(a) % Half = 0 /\ Abs(a) \div Half < Len(CosTable)}
TableAt(t, x) == t[(Abs(x) \div Half) + 1]

\* math.cos(x): even
Cos(x) == IF IsErr(x) THEN x ELSE RoundSigned(TableAt(CosTable, x), 100000)

\* math.sin(x): odd
Sin(x) ==
    IF IsErr(x) THEN x ELSE Sgn(x) * RoundSigned(TableAt(SinTable, x), 100000)

\* math.sinh(x): odd; a result out of range raises OverflowError
Sinh(x) ==
    IF IsErr(x) THEN x
    ELSE OrOverflow(Sgn(x), RoundMag(TableAt(SinhTable, x) * One, 100000))

\* floor(log2 n) for n >= 1
RECURSIVE Log2Floor(_)
Log2Floor(n) == IF n < 2 THEN 0 ELSE 1 + Log2Floor(n \div 2)

\* the product of two numbers held times 10^4
MulDiv(a, b) == (a * b) \div 10000

\* 2 atanh(z) = 2 (z + z^3/3 + z^5/5 + z^7/7), z and the result times 10^4,
\* z2 being z^2
AtanhSeries(z, z2) ==
    2 * (z + (MulDiv(z2, z) \div 3)
           + (MulDiv(MulDiv(z2, z), z2) \div 5)
           + (MulDiv(MulDiv(MulDiv(z2, z), z2), z2) \div 7))
Atanh2(z) == AtanhSeries(z, MulDiv(z, z))

\* ln(n / 2^Scale) times 10^4 for an integer n >= 1 with e = floor(log2 n):
\* ln = (e - Scale) ln 2 + 2 atanh(z), z = (n - 2^e)/(n + 2^e) in [0, 1/3)
LnParts(n, e) ==
    (e - Scale) * 6931 + Atanh2((10000 * (n - Pow2Int(e))) \div (n + Pow2Int(e)))
LnScaled(n) == LnParts(n, Log2Floor(n))

\* math.log(x): zero and negative arguments raise ValueError
MathLog(x) ==
    IF IsErr(x) \/ IsNaN(x) THEN x
    ELSE IF x <= 0 THEN ValueError
    ELSE IF x = PosInf THEN PosInf
    ELSE RoundSigned(LnScaled(x), 10000)

\* atan(r) in milliradians for a ratio r in [0, 1] held times 10^3:
\* r (pi/4 + 0.273 (1 - r))
AtanOfRatio(r) == (r * (785000 + 273 * (1000 - r))) \div 1000000

\* atan(a/b) in milliradians for 0 <= a <= b, b > 0
AtanMilli(a, b) == AtanOfRatio((1000 * a) \div b)

\* the angle of the point (b, a) of the first quadrant in milliradians
FirstQuadrant(a, b) ==
    IF a = 0 /\ b = 0 THEN 0
    ELSE IF a = PosInf /\ b = PosInf THEN 3142 \div 4
    ELSE IF a = PosInf THEN 3142 \div 2
    ELSE IF b = PosInf THEN 0
    ELSE IF a <= b THEN AtanMilli(a, b)
    ELSE (3142 \div 2) - AtanMilli(b, a)

\* the angle of the point (x, |y|) in milliradians, 0..3142
Reflect(x, first) == IF x < 0 THEN 3142 - first ELSE first
AngleMilli(y, x) == Reflect(x, FirstQuadrant(Abs(y), Abs(x)))

\* math.atan2(y, x), in (-pi, pi], to within one unit in the last place
MathAtan2(y, x) ==
    IF IsErr(y) THEN y
    ELSE IF IsErr(x) THEN x
    ELSE IF IsNaN(y) \/ IsNaN(x) THEN NaN
    ELSE Round(Sgn(y), AngleMilli(y, x) * One, 1000)

\* the operations tabulated over the format
AddTable == [x \in Vals, y \in Vals |-> FloatAdd(x, y)]
SubTable == [x \in Vals, y \in Vals |-> FloatSub(x, y)]
MulTable == [x \in Vals, y \in Vals |-> FloatMul(x, y)]
DivTable == [x \in Vals, y \in Vals |-> FloatDiv(x, y)]
Atan2Table == [y \in Vals, x \in Vals |-> MathAtan2(y, x)]
SquareTable == [x \in Vals |-> FloatSquare(x)]
SqrtTable == [x \in Vals |-> MathSqrt(x)]
LogTable == [x \in Vals |-> MathLog(x)]

x \oplus y == AddTable[x, y]
x \ominus y == SubTable[x, y]
x \otimes y == MulTable[x, y]
x \oslash y == DivTable[x, y]
Sq(x) == SquareTable[x]
Sqrt(x) == SqrtTable[x]
Log(x) == LogTable[x]
Atan2(y, x) == Atan2Table[y, x]

\* ------------------------------------------------------------------------
\* FourVector and its four construction variants
\* ------------------------------------------------------------------------
Classes == {"PxPyPzEFourVector", "PxPyPzMFourVector",
            "PtEtaPhiEFourVector", "PtEtaPhiMFourVector"}

ErrName(e) ==
    IF e = OverflowError THEN "OverflowError"
    ELSE IF e = ValueError THEN "ValueError"
    ELSE IF e = ZeroDivisionError THEN "ZeroDivisionError"
    ELSE "none"

NoObj == [cls |-> "none", px |-> 0, py |-> 0, pz |-> 0, E |-> 0,
          pt |-> 0, eta |-> 0, phi |-> 0, M |-> 0]
Raise(e) == [err |-> e, obj |-> NoObj]

\* p = math.sqrt(px**2 + py**2 + pz**2)
Momentum(px, py, pz) == Sqrt((Sq(px) \oplus Sq(py)) \oplus Sq(pz))

\* the eta branch of _calculate_derived_quantities
CalcEta(p, pz) ==
    IF IsErr(p) THEN p
    ELSE IF Fne(p, FloatAbs(pz))
         THEN Half \otimes Log((p \oplus pz) \oslash (p \ominus pz))
    ELSE IF Fge(pz, 0) THEN PosInf ELSE NegInf

\* M = math.sqrt(max(E**2 - p**2, 0))
CalcM(E, p) == Sqrt(Max0(Sq(E) \ominus Sq(p)))

\* the statements of _calculate_derived_quantities, p being the value its
\* third statement gives the local variable of that name
DerivedWith(px, py, pz, E, p) ==
    [pt |-> Sqrt(Sq(px) \oplus Sq(py)),
     phi |-> Atan2(py, px),
     eta |-> CalcEta(p, pz),
     M |-> CalcM(E, p)]

\* FourVector._calculate_derived_quantities: the four derived attributes
CalculateDerivedQuantities(px, py, pz, E) ==
    DerivedWith(px, py, pz, E, Momentum(px, py, pz))

\* the instance with its eight attributes, or the first exception raised by
\* the statements that derive d, in their order (an exception raised by the
\* statement for p is the value of d.eta)
Stored(cls, px, py, pz, E, d) ==
    IF AnyErr(<<d.pt, d.phi, d.eta, d.M>>)
    THEN Raise(ErrName(FirstErr(<<d.pt, d.phi, d.eta, d.M>>)))
    ELSE [err |-> "none",
          obj |-> [cls |-> cls, px |-> px, py |-> py, pz |-> pz, E |-> E,
                   pt |-> d.pt, eta |-> d.eta, phi |-> d.phi, M |-> d.M]]

\* FourVector.__init__: stores the four canonical attributes and derives the
\* rest
FourVectorInit(cls, px, py, pz, E) ==
    Stored(cls, px, py, pz, E, CalculateDerivedQuantities(px, py, pz, E))

\* super().__init__(px, py, pz, E) of a variant: the arguments are evaluated
\* first, in their order, and an exception raised by one of them leaves the
\* constructor before FourVector.__init__ is entered
SuperInit(cls, px, py, pz, E) ==
    IF AnyErr(<<px, py, pz, E>>) THEN Raise(ErrName(FirstErr(<<px, py, pz, E>>)))
    ELSE FourVectorInit(cls, px, py, pz, E)

\* a variant of EnergyFromMass that leaves the mass out of the sum
EnergyWithoutMass(px, py, pz, M) ==
    Sqrt((Sq(px) \oplus Sq(py)) \oplus Sq(pz))

\* E = math.sqrt(px**2 + py**2 + pz**2 + M**2) of the mass-basis variants
EnergyFromMass(px, py, pz, M) ==
    Sqrt(((Sq(px) \oplus Sq(py)) \oplus Sq(pz)) \oplus Sq(M))

\* px = pt*cos(phi), py = pt*sin(phi), pz = pt*sinh(eta)
AngularToCartesian(pt, eta, phi) ==
    [px |-> pt \otimes Cos(phi), py |-> pt \otimes Sin(phi), pz |-> pt \otimes Sinh(eta)]

PxPyPzEFourVector(px, py, pz, E) ==
    SuperInit("PxPyPzEFourVector", px, py, pz, E)

PxPyPzMFourVector(px, py, pz, M) ==
    SuperInit("PxPyPzMFourVector", px, py, pz, EnergyFromMass(px, py, pz, M))

\* the angular variants once px, py and pz are computed (the record c)
AngularEnergyInit(c, E) == SuperInit("PtEtaPhiEFourVector", c.px, c.py, c.pz, E)
AngularMassInit(c, M) ==
    SuperInit("PtEtaPhiMFourVector", c.px, c.py, c.pz,
              EnergyFromMass(c.px, c.py, c.pz, M))

PtEtaPhiEFourVector(pt, eta, phi, E) ==
    AngularEnergyInit(AngularToCartesian(pt, eta, phi), E)

PtEtaPhiMFourVector(pt, eta, phi, M) ==
    AngularMassInit(AngularToCartesian(pt, eta, phi), M)

\* the constructor of class cls applied to four arguments
Construct(cls, a1, a2, a3, a4) ==
    IF cls = "PxPyPzEFourVector" THEN PxPyPzEFourVector(a1, a2, a3, a4)
    ELSE IF cls = "PxPyPzMFourVector" THEN PxPyPzMFourVector(a1, a2, a3, a4)
    ELSE IF cls = "PtEtaPhiEFourVector" THEN PtEtaPhiEFourVector(a1, a2, a3, a4)
    ELSE PtEtaPhiMFourVector(a1, a2, a3, a4)

\* ------------------------------------------------------------------------
\* Operators and mutation attempts
\* ------------------------------------------------------------------------
PublicAttrs == {"px", "py", "pz", "E", "pt", "eta", "phi", "M"}

\* operands that are not four-vectors, by type
OtherTypes == {"int", "str"}
Other(t) == [NoObj EXCEPT !.cls = t]

\* isinstance(o, FourVector)
IsFourVector(o) == o.cls \in Classes

NotImplemented == [err |-> "NotImplemented", obj |-> NoObj]

\* a variant of __add__ that takes a foreign operand for the zero vector
FvAddCoercing(self, other) ==
    IF ~IsFourVector(other)
    THEN PxPyPzEFourVector(self.px, self.py, self.pz, self.E)
    ELSE PxPyPzEFourVector(self.px \oplus other.px, self.py \oplus other.py,
                           self.pz \oplus other.pz, self.E \oplus other.E)

\* a variant of __add__ whose energy forgets the right operand
FvAddLeftEnergy(self, other) ==
    IF ~IsFourVector(other) THEN NotImplemented
    ELSE PxPyPzEFourVector(self.px \oplus other.px, self.py \oplus other.py,
                           self.pz \oplus other.pz, self.E \oplus self.E)

\* FourVector.__add__
FvAdd(self, other) ==
    IF ~IsFourVector(other) THEN NotImplemented
    ELSE PxPyPzEFourVector(self.px \oplus other.px, self.py \oplus other.py,
                           self.pz \oplus other.pz, self.E \oplus other.E)

\* a variant of __sub__ whose energy line was copied from __add__
FvSubAddingEnergy(self, other) ==
    IF ~IsFourVector(other) THEN NotImplemented
    ELSE PxPyPzEFourVector(self.px \ominus other.px, self.py \ominus other.py,
                           self.pz \ominus other.pz, self.E \oplus other.E)

\* FourVector.__sub__
FvSub(self, other) ==
    IF ~IsFourVector(other) THEN NotImplemented
    ELSE PxPyPzEFourVector(self.px \ominus other.px, self.py \ominus other.py,
                           self.pz \ominus other.pz, self.E \ominus other.E)

\* the expressions l + r and l - r: the left operand's method is tried; when
\* it returns NotImplemented the right operand's reflected method would be,
\* which FourVector does not define and which the built-in types answer with
\* NotImplemented for a four-vector; the interpreter then raises TypeError
Dispatched(m) == IF m = NotImplemented THEN Raise("TypeError") ELSE m

BinaryAdd(l, r) ==
    Dispatched(IF IsFourVector(l) THEN FvAdd(l, r) ELSE NotImplemented)

BinarySub(l, r) ==
    Dispatched(IF IsFourVector(l) THEN FvSub(l, r) ELSE NotImplemented)

\* a variant of set_vector that raises only when handed the stored values
SetVectorStoring(self, a1, a2, a3, a4) ==
    IF <<a1, a2, a3, a4>> = <<self.px, self.py, self.pz, self.E>>
    THEN [err |-> "AttributeError", obj |-> self]
    ELSE [err |-> "none",
          obj |-> [self EXCEPT !.px = a1, !.py = a2, !.pz = a3, !.E = a4]]

\* set_vector of each of the four variants: raises, touches nothing
SetVector(self, a1, a2, a3, a4) == [err |-> "AttributeError", obj |-> self]

\* a variant of the properties in which each has a setter
SetAttrStoring(self, name, v) == [err |-> "none", obj |-> [self EXCEPT ![name] = v]]

\* self.<name> = v for one of the eight properties: none has a setter
SetAttr(self, name, v) == [err |-> "AttributeError", obj |-> self]

\* reading the property <name>
GetAttr(self, name) ==
    IF name = "px" THEN self.px ELSE IF name = "py" THEN self.py
    ELSE IF name = "pz" THEN self.pz ELSE IF name = "E" THEN self.E
    ELSE IF name = "pt" THEN self.pt ELSE IF name = "eta" THEN self.eta
    ELSE IF name = "phi" THEN self.phi ELSE self.M

\* FourVector.__repr__: the class name and the eight attributes in order
Repr(self) ==
    <<self.cls, self.px, self.py, self.pz, self.E,
      self.pt, self.eta, self.phi, self.M>>

\* ------------------------------------------------------------------------
\* Inputs
\* ------------------------------------------------------------------------
SmallestFloat == Pow2Int(0)
\* a normal float whose square is subnormal
Tiny == MinNormal + 1
\* the largest float whose square is in range
Big == CHOOSE f \in Mags : /\ Sq(f) \in Floats
                           /\ \A g \in Mags : Sq(g) \in Floats => g <= f
SteepAngle == CHOOSE a \in Angles : \A b \in Angles : b <= a

\* arguments of the client with two operands
PxIn == {0, Big}
PyIn == {0, Big}
PzIn == {0 - One}
EIn == {One}
PtIn == {Big}
EtaIn == {0 - One, 3 * One}
PhiIn == {One}

Args(cls) ==
    IF cls \in {"PxPyPzEFourVector", "PxPyPzMFourVector"}
    THEN PxIn \X PyIn \X PzIn \X EIn
    ELSE PtIn \X EtaIn \X PhiIn \X EIn

\* arguments of the single constructor calls
WideIn == {s * m : s \in {0 - 1, 1},
                   m \in {0, SmallestFloat, Tiny, One, Big, MaxFinite}}
WideAngles == {a \in Angles : Abs(a) \in {0, One, 3 * One, SteepAngle}}

WideArgs(cls) ==
    IF cls \in {"PxPyPzEFourVector", "PxPyPzMFourVector"}
    THEN WideIn \X WideIn \X WideIn \X WideIn
    ELSE WideIn \X WideAngles \X WideAngles \X WideIn

\* ------------------------------------------------------------------------
\* The state machine: a client that constructs two operands a and b and
\* calls the operations of the class on them.  objs holds the instances,
\* born what each was at construction and from which arguments, last the
\* latest call with its outcome.
\* ------------------------------------------------------------------------
VARIABLES objs, born, last
vars == <<objs, born, last>>

Slots == {"a", "b"}
NoArgs == <<0, 0, 0, 0>>
NoCall == [op |-> "none", cls |-> "none", args |-> NoArgs, l |-> "none",
           r |-> "none", name |-> "none", err |-> "none", ret |-> NoObj,
           val |-> 0, text |-> << >>]
Unborn == [args |-> NoArgs, obj |-> NoObj]

Filled(s) == objs[s] # NoObj
NextSlot == IF ~Filled("a") THEN "a" ELSE "b"

Init ==
    /\ objs = [s \in Slots |-> NoObj]
    /\ born = [s \in Slots |-> Unborn]
    /\ last = NoCall

\* cls(a1, a2, a3, a4): the client keeps the instance, if one is returned
New(cls, args) ==
    /\ \E s \in Slots : ~Filled(s)
    /\ \E out \in {Construct(cls, args[1], args[2], args[3], args[4])} :
           /\ objs' = IF out.err = "none" THEN [objs EXCEPT ![NextSlot] = out.obj]
                      ELSE objs
           /\ born' = IF out.err = "none"
                      THEN [born EXCEPT ![NextSlot] = [args |-> args, obj |-> out.obj]]
                      ELSE born
           /\ last' = [NoCall EXCEPT !.op = "new", !.cls = cls, !.args = args,
                                     !.err = out.err, !.ret = out.obj]

\* objs[l] + objs[r]
Add(l, r) ==
    /\ Filled(l) /\ Filled(r)
    /\ \E out \in {BinaryAdd(objs[l], objs[r])} :
           last' = [NoCall EXCEPT !.op = "add", !.l = l, !.r = r,
                                  !.err = out.err, !.ret = out.obj]
    /\ UNCHANGED <<objs, born>>

\* objs[l] - objs[r]
Sub(l, r) ==
    /\ Filled(l) /\ Filled(r)
    /\ \E out \in {BinarySub(objs[l], objs[r])} :
           last' = [NoCall EXCEPT !.op = "sub", !.l = l, !.r = r,
                                  !.err = out.err, !.ret = out.obj]
    /\ UNCHANGED <<objs, born>>

\* objs[s] + x and x + objs[s] for an x of type t that is no four-vector
AddOther(s, t, left) ==
    /\ Filled(s)
    /\ \E out \in {BinaryAdd(IF left THEN objs[s] ELSE Other(t),
                             IF left THEN Other(t) ELSE objs[s])} :
           last' = [NoCall EXCEPT !.op = "add", !.l = IF left THEN s ELSE t,
                                  !.r = IF left THEN t ELSE s,
                                  !.err = out.err, !.ret = out.obj]
    /\ UNCHANGED <<objs, born>>

\* objs[s] - x and x - objs[s] for an x of type t that is no four-vector
SubOther(s, t, left) ==
    /\ Filled(s)
    /\ \E out \in {BinarySub(IF left THEN objs[s] ELSE Other(t),
                             IF left THEN Other(t) ELSE objs[s])} :
           last' = [NoCall EXCEPT !.op = "sub", !.l = IF left THEN s ELSE t,
                                  !.r = IF left THEN t ELSE s,
                                  !.err = out.err, !.ret = out.obj]
    /\ UNCHANGED <<objs, born>>

\* objs[s].set_vector(a1, a2, a3, a4)
CallSetVector(s, args) ==
    /\ Filled(s)
    /\ \E out \in {SetVector(objs[s], args[1], args[2], args[3], args[4])} :
           /\ objs' = [objs EXCEPT ![s] = out.obj]
           /\ last' = [NoCall EXCEPT !.op = "set_vector", !.l = s, !.args = args,
                                     !.err = out.err]
    /\ UNCHANGED born

\* objs[s].<name> = v
Assign(s, name, v) ==
    /\ Filled(s)
    /\ \E out \in {SetAttr(objs[s], name, v)} :
           /\ objs' = [objs EXCEPT ![s] = out.obj]
           /\ last' = [NoCall EXCEPT !.op = "setattr", !.l = s, !.name = name,
                                     !.val = v, !.err = out.err]
    /\ UNCHANGED born

\* objs[s].<name>
Read(s, name) ==
    /\ Filled(s)
    /\ last' = [NoCall EXCEPT !.op = "getattr", !.l = s, !.name = name,
                              !.val = GetAttr(objs[s], name)]
    /\ UNCHANGED <<objs, born>>

\* repr(objs[s])
Show(s) ==
    /\ Filled(s)
    /\ last' = [NoCall EXCEPT !.op = "repr", !.l = s, !.text = Repr(objs[s])]
    /\ UNCHANGED <<objs, born>>

\* the arguments tried on set_vector: the ones the instance was built from
\* and others
SetArgs(s) == {born[s].args, <<One, One, One, One>>}

Next ==
    \/ \E cls \in Classes : \E args \in Args(cls) : New(cls, args)
    \/ \E l \in Slots, r \in Slots : Add(l, r)
    \/ \E l \in Slots, r \in Slots : Sub(l, r)
    \/ \E s \in Slots, t \in OtherTypes, left \in BOOLEAN : AddOther(s, t, left)
    \/ \E s \in Slots, t \in OtherTypes, left \in BOOLEAN : SubOther(s, t, left)
    \/ \E s \in Slots : \E args \in SetArgs(s) : CallSetVector(s, args)
    \/ \E s \in Slots, name \in PublicAttrs : Assign(s, name, One)
    \/ \E s \in Slots, name \in PublicAttrs : Read(s, name)
    \/ \E s \in Slots : Show(s)

Spec == Init /\ [][Next]_vars

\* ------------------------------------------------------------------------
\* Single constructor calls: the call to make is drawn first, from the wide
\* argument sets, and then made
\* ------------------------------------------------------------------------
InitNew ==
    /\ objs = [s \in Slots |-> NoObj]
    /\ born = [s \in Slots |-> Unborn]
    /\ \E cls \in Classes : \E args \in WideArgs(cls) :
           last = [NoCall EXCEPT !.op = "call", !.cls = cls, !.args = args]

Run == last.op = "call" /\ New(last.cls, last.args)

NextNew == Run

SpecNew == InitNew /\ [][NextNew]_vars

\* ------------------------------------------------------------------------
\* Properties
\* ------------------------------------------------------------------------
\* x is a finite float; x < y on floats
IsFinite(x) == x > NegInf /\ x < PosInf
Flt(x, y) == ~IsNaN(x) /\ ~IsNaN(y) /\ x < y

Untouched == \A s \in Slots : objs[s] = born[s].obj
FvOperands == last.l \in Slots /\ last.r \in Slots
Built == last.op = "new" /\ last.err = "none"
MassVariants == {"PxPyPzMFourVector", "PtEtaPhiMFourVector"}
DerivedOf(o) == [pt |-> o.pt, phi |-> o.phi, eta |-> o.eta, M |-> o.M]
Rederived(o) == CalculateDerivedQuantities(o.px, o.py, o.pz, o.E)
AllFinite(o) == IsFinite(o.px) /\ IsFinite(o.py) /\ IsFinite(o.pz) /\ IsFinite(o.E)

\* C1: a call of set_vector, on any variant and with any four arguments,
\* raises AttributeError and leaves every attribute of every instance as it
\* was at construction.
C1_SetVectorRaises ==
    last.op = "set_vector" => last.err = "AttributeError" /\ Untouched

C1_Witness ==
    /\ last.op = "set_vector"
    /\ objs[last.l].cls = "PtEtaPhiMFourVector"
    /\ last.args = born[last.l].args

\* C2: whatever the client has called, each instance has the eight
\* attributes it was given at construction, its pt, phi, eta, M are the
\* quantities derived from its px, py, pz, E, and an attempt to assign an
\* attribute or to call set_vector has raised AttributeError.
C2_Immutable ==
    /\ \A s \in Slots :
           Filled(s) => objs[s] = born[s].obj /\ DerivedOf(objs[s]) = Rederived(objs[s])
    /\ last.op \in {"setattr", "set_vector"} => last.err = "AttributeError"

C2_Witness ==
    /\ last.op = "setattr"
    /\ last.name = "eta"
    /\ Filled("a") /\ Filled("b")
    /\ last.val # objs[last.l].eta

\* C3: l + r and l - r on two four-vectors return a new PxPyPzEFourVector
\* holding the componentwise sums (differences), whose derived attributes
\* are those of its own components, and leave the operands untouched.
C3_AddSubComponentwise ==
    last.op \in {"add", "sub"} /\ FvOperands =>
        LET a == objs[last.l]
            b == objs[last.r]
            c == last.ret
        IN  /\ last.err = "none"
            /\ c.cls = "PxPyPzEFourVector"
            /\ last.op = "add" => /\ c.px = a.px \oplus b.px /\ c.py = a.py \oplus b.py
                                  /\ c.pz = a.pz \oplus b.pz /\ c.E = a.E \oplus b.E
            /\ last.op = "sub" => /\ c.px = a.px \ominus b.px /\ c.py = a.py \ominus b.py
                                  /\ c.pz = a.pz \ominus b.pz /\ c.E = a.E \ominus b.E
            /\ DerivedOf(c) = Rederived(c)
            /\ Untouched

\* C4: + and - with an operand that is not a four-vector, on either side,
\* raise TypeError and return nothing.
C4_ForeignOperandRaises ==
    last.op \in {"add", "sub"} /\ ~FvOperands =>
        last.err = "TypeError" /\ last.ret = NoObj

C4_Witness ==
    /\ last.op = "add"
    /\ last.l \in Slots /\ last.r \in OtherTypes
    /\ last.err = "TypeError"

\* C5: a constructor called with four finite numbers returns an instance;
\* it raises nothing.
C5_NoErrorPath ==
    last.op = "new" => last.err = "none"

\* C6: an instance with px = py = 0 has eta = +inf when pz >= 0 and -inf
\* when pz < 0; an instance whose momentum magnitude differs from |pz| has
\* the finite eta 0.5 * log((p + pz)/(p - pz)).
C6_EtaOnAndOffAxis ==
    Built =>
        LET o == last.ret
            p == Momentum(o.px, o.py, o.pz)
        IN  /\ o.px = 0 /\ o.py = 0 /\ Fge(o.pz, 0) => o.eta = PosInf
            /\ o.px = 0 /\ o.py = 0 /\ Flt(o.pz, 0) => o.eta = NegInf
            /\ Fne(p, FloatAbs(o.pz)) =>
                   /\ IsFinite(o.eta)
                   /\ o.eta = Half \otimes Log((p \oplus o.pz) \oslash (p \ominus o.pz))

\* C7: every instance has M >= 0: M is sqrt(E^2 - p^2) when E^2 >= p^2 and
\* 0 when E^2 < p^2.
C7_MassNonNegative ==
    Built =>
        LET o == last.ret
            E2 == Sq(o.E)
            p2 == Sq(Momentum(o.px, o.py, o.pz))
        IN  /\ Fge(o.M, 0)
            /\ Fge(E2, p2) => o.M = Sqrt(E2 \ominus p2)
            /\ Flt(E2, p2) => o.M = 0

\* C8 as stated: a - a is the zero four-vector for every instance a.
C8_SubSelfZeroAlways ==
    last.op = "sub" /\ FvOperands /\ last.l = last.r =>
        /\ last.err = "none"
        /\ last.ret.px = 0 /\ last.ret.py = 0 /\ last.ret.pz = 0 /\ last.ret.E = 0

\* C8: a - a is the zero four-vector (px = py = pz = E = 0, hence pt = 0 and
\* M = 0) for every instance a whose px, py, pz and E are finite.
C8_SubSelfZero ==
    last.op = "sub" /\ FvOperands /\ last.l = last.r /\ AllFinite(objs[last.l]) =>
        /\ last.err = "none"
        /\ last.ret.px = 0 /\ last.ret.py = 0 /\ last.ret.pz = 0 /\ last.ret.E = 0
        /\ last.ret.pt = 0 /\ last.ret.M = 0

C8_Witness ==
    /\ last.op = "sub" /\ FvOperands /\ last.l = last.r
    /\ AllFinite(objs[last.l])
    /\ objs[last.l].px # 0 /\ objs[last.l].E # 0
    /\ last.ret.E = 0

\* C9: a + b and b + a have the same outcome: the same exception, or
\* instances of the same class with the same eight attributes.
C9_AddCommutes ==
    last.op = "add" /\ FvOperands =>
        LET swapped == BinaryAdd(objs[last.r], objs[last.l])
        IN  /\ last.err = swapped.err
            /\ last.ret.cls = swapped.obj.cls
            /\ \A n \in PublicAttrs : GetAttr(last.ret, n) = GetAttr(swapped.obj, n)

C9_Witness ==
    /\ last.op = "add" /\ FvOperands
    /\ last.err = "none"
    /\ objs[last.l].cls # objs[last.r].cls
    /\ objs[last.l].E # objs[last.r].E
    /\ objs[last.l].px # objs[last.r].px

\* the energy-basis constructor that takes the same first three arguments
EnergyVariant(cls) ==
    IF cls = "PxPyPzMFourVector" THEN "PxPyPzEFourVector" ELSE "PtEtaPhiEFourVector"

SameMomentum ==
    LET o == last.ret
        e == Construct(EnergyVariant(last.cls), last.args[1], last.args[2],
                       last.args[3], o.E)
    IN  /\ e.err = "none"
        /\ e.obj.px = o.px /\ e.obj.py = o.py /\ e.obj.pz = o.pz

====
